---------------------------- MODULE Spec2Model ----------------------------
(***************************************************************************)
(* A model of CGAL's Sweep_line_subcurve (Sweep_line_2 package): the       *)
(* wrapper the plane sweep keeps for every x-monotone curve.               *)
(*                                                                         *)
(* The traits class (the geometric kernel) is a template parameter; it is  *)
(* modelled here as a segment kernel over a small integer grid, after the  *)
(* contracts of its predicates.  Status_line_curve_less_functor lives in   *)
(* Sweep_line_functors.h and is modelled after its documented contract.    *)
(***************************************************************************)
EXTENDS Integers, FiniteSets, Sequences, TLC

\* ------------------------------------------------------------------------
\* Bounds of the model
\* ------------------------------------------------------------------------

\* Largest x coordinate of a grid point.
MaxX == 2

\* Largest y coordinate of a grid point.
MaxY == 1

\* Largest status-line position an iterator may designate.
MaxHint == 1

\* ------------------------------------------------------------------------
\* The kernel (Traits): points, curves and predicates
\* ------------------------------------------------------------------------

\* Traits::Point_2
Points == (0..MaxX) \X (0..MaxY)

\* Traits::X_monotone_curve_2 : a directed segment from s to t.
Curves == [s : Points, t : Points]

\* A default-constructed Point_2 (a value of the kernel's, not a grid point).
NoPoint == <<-1, -1>>

\* A default-constructed X_monotone_curve_2.
NoCurve == [s |-> NoPoint, t |-> NoPoint]

\* The traits objects of the program: the sweep owns one and hands its address
\* to every Subcurve.
Traits == {"traits"}

\* The value of a pointer member that was never assigned.
WildPtr == "wild"

\* Values of StatusLineIter: positions of the status line.
Hints == 0..MaxHint

\* A default-constructed (singular) StatusLineIter.
NoHint == -1

\* traits->curve_source(curve)
curve_source(curve) == curve.s

\* traits->curve_target(curve)
curve_target(curve) == curve.t

\* traits->compare_xy(p, q): x first, then y.
compare_xy(p, q) ==
  IF p[1] < q[1] THEN "SMALLER"
  ELSE IF p[1] > q[1] THEN "LARGER"
  ELSE IF p[2] < q[2] THEN "SMALLER"
  ELSE IF p[2] > q[2] THEN "LARGER"
  ELSE "EQUAL"

\* traits->point_equal(p, q)
point_equal(p, q) == p[1] = q[1] /\ p[2] = q[2]

\* CGAL_assertion(cond) of CGAL/assertions.h: checked when the build enables
\* assertions, compiled out under NDEBUG / CGAL_NO_ASSERTIONS.  TRUE when
\* execution continues past it.
CGAL_assertion(enabled, cond) == enabled => cond

\* ------------------------------------------------------------------------
\* State
\* ------------------------------------------------------------------------

VARIABLES
  assertions,   \* the build: TRUE when CGAL_assertion is checked
  st,           \* lifetime of the Subcurve: none, default, ready, failed
  obj,          \* the members of the Subcurve
  call,         \* the most recent member call and its arguments
  st2,          \* lifetime of a second Subcurve, built by default ctor + init
  obj2,         \* the members of the second Subcurve
  ref,          \* the reference x position of the status line
  trio,         \* three Subcurves active at ref
  less          \* the comparator's answers on trio, once asked

vars == <<assertions, st, obj, call, st2, obj2, ref, trio, less>>

\* The storage of a Subcurve before any constructor body ran: the members of
\* class type are default-constructed, m_traits and m_isRightSide hold
\* whatever the memory held.
RawObjects ==
  { [m_traits |-> tr, m_curve |-> NoCurve, m_lastPoint |-> NoPoint,
     m_lastCurve |-> NoCurve, m_lastSubCurve |-> NoCurve,
     m_isRightSide |-> b, m_source |-> NoPoint, m_target |-> NoPoint,
     m_hint |-> NoHint] : tr \in Traits \cup {WildPtr}, b \in BOOLEAN }

\* The placeholder for a Subcurve that does not exist yet.
NoObject ==
  [m_traits |-> WildPtr, m_curve |-> NoCurve, m_lastPoint |-> NoPoint,
   m_lastCurve |-> NoCurve, m_lastSubCurve |-> NoCurve,
   m_isRightSide |-> FALSE, m_source |-> NoPoint, m_target |-> NoPoint,
   m_hint |-> NoHint]

\* No member call was made yet.
NoCall == [op |-> "none", pt |-> NoPoint, cv |-> NoCurve, tr |-> WildPtr,
           h |-> NoHint]

\* ------------------------------------------------------------------------
\* Construction
\* ------------------------------------------------------------------------

\* A slip: the two outcomes of the comparison are exchanged.
Sweep_line_subcurve_swapped(raw, curve, traits) ==
  LET o1 == [raw EXCEPT !.m_traits = traits,
                        !.m_curve = curve,
                        !.m_source = curve_source(curve),
                        !.m_target = curve_target(curve)]
      res == compare_xy(o1.m_source, o1.m_target)
  IN  IF res = "SMALLER"
      THEN [st |-> "ready",
            o |-> [o1 EXCEPT !.m_lastPoint = o1.m_target,
                             !.m_isRightSide = FALSE,
                             !.m_lastCurve = curve]]
      ELSE IF ~CGAL_assertion(assertions, res = "LARGER")
      THEN [st |-> "failed", o |-> o1]
      ELSE [st |-> "ready",
            o |-> [o1 EXCEPT !.m_lastPoint = o1.m_source,
                             !.m_isRightSide = TRUE,
                             !.m_lastCurve = curve]]

\* A slip: m_lastCurve is left as it was default-constructed.
Sweep_line_subcurve_no_last_curve(raw, curve, traits) ==
  LET o1 == [raw EXCEPT !.m_traits = traits,
                        !.m_curve = curve,
                        !.m_source = curve_source(curve),
                        !.m_target = curve_target(curve)]
      res == compare_xy(o1.m_source, o1.m_target)
  IN  IF res = "LARGER"
      THEN [st |-> "ready",
            o |-> [o1 EXCEPT !.m_lastPoint = o1.m_target,
                             !.m_isRightSide = FALSE]]
      ELSE IF ~CGAL_assertion(assertions, res = "SMALLER")
      THEN [st |-> "failed", o |-> o1]
      ELSE [st |-> "ready",
            o |-> [o1 EXCEPT !.m_lastPoint = o1.m_source,
                             !.m_isRightSide = TRUE]]

\* Sweep_line_subcurve(curve, traits) on the storage raw.  The result is the
\* lifetime state and the members.
Sweep_line_subcurve(raw, curve, traits) ==
  LET o1 == [raw EXCEPT !.m_traits = traits,
                        !.m_curve = curve,
                        !.m_source = curve_source(curve),
                        !.m_target = curve_target(curve)]
      res == compare_xy(o1.m_source, o1.m_target)
  IN  IF res = "LARGER"
      THEN [st |-> "ready",
            o |-> [o1 EXCEPT !.m_lastPoint = o1.m_target,
                             !.m_isRightSide = FALSE,
                             !.m_lastCurve = curve]]
      ELSE IF ~CGAL_assertion(assertions, res = "SMALLER")
      THEN [st |-> "failed", o |-> o1]
      ELSE [st |-> "ready",
            o |-> [o1 EXCEPT !.m_lastPoint = o1.m_source,
                             !.m_isRightSide = TRUE,
                             !.m_lastCurve = curve]]

\* A slip: init forgets the traits pointer, which only the constructor's
\* initialiser list sets.
init_no_traits(o, curve, traits) ==
  LET o1 == [o EXCEPT !.m_curve = curve,
                      !.m_source = curve_source(curve),
                      !.m_target = curve_target(curve)]
      res == compare_xy(o1.m_source, o1.m_target)
  IN  IF res = "LARGER"
      THEN [st |-> "ready",
            o |-> [o1 EXCEPT !.m_lastPoint = o1.m_target,
                             !.m_isRightSide = FALSE,
                             !.m_lastCurve = curve]]
      ELSE IF ~CGAL_assertion(assertions, res = "SMALLER")
      THEN [st |-> "failed", o |-> o1]
      ELSE [st |-> "ready",
            o |-> [o1 EXCEPT !.m_lastPoint = o1.m_source,
                             !.m_isRightSide = TRUE,
                             !.m_lastCurve = curve]]

\* this->init(curve, traits) on the members o.
init(o, curve, traits) ==
  LET o1 == [o EXCEPT !.m_traits = traits,
                      !.m_curve = curve,
                      !.m_source = curve_source(curve),
                      !.m_target = curve_target(curve)]
      res == compare_xy(o1.m_source, o1.m_target)
  IN  IF res = "LARGER"
      THEN [st |-> "ready",
            o |-> [o1 EXCEPT !.m_lastPoint = o1.m_target,
                             !.m_isRightSide = FALSE,
                             !.m_lastCurve = curve]]
      ELSE IF ~CGAL_assertion(assertions, res = "SMALLER")
      THEN [st |-> "failed", o |-> o1]
      ELSE [st |-> "ready",
            o |-> [o1 EXCEPT !.m_lastPoint = o1.m_source,
                             !.m_isRightSide = TRUE,
                             !.m_lastCurve = curve]]

\* ------------------------------------------------------------------------
\* Queries
\* ------------------------------------------------------------------------

get_curve(o) == o.m_curve

get_last_point(o) == o.m_lastPoint

get_last_curve(o) == o.m_lastCurve

get_last_subcurve(o) == o.m_lastSubCurve

is_source_left_to_target(o) == o.m_isRightSide

is_source(o, p) == point_equal(p, o.m_source)

is_target(o, p) == point_equal(p, o.m_target)

is_end_point(o, p) == is_target(o, p) \/ is_source(o, p)

get_source(o) == o.m_source

get_target(o) == o.m_target

is_left_end(o, p) ==
  IF is_source_left_to_target(o) /\ is_source(o, p) THEN TRUE
  ELSE IF ~is_source_left_to_target(o) /\ is_target(o, p) THEN TRUE
  ELSE FALSE

is_right_end(o, p) ==
  IF is_source_left_to_target(o) /\ is_target(o, p) THEN TRUE
  ELSE IF ~is_source_left_to_target(o) /\ is_source(o, p) THEN TRUE
  ELSE FALSE

get_right_end(o) ==
  IF is_source_left_to_target(o) THEN o.m_target ELSE o.m_source

\* A slip: the left end is taken to be the source whatever the direction.
get_left_end_source(o) == o.m_source

get_left_end(o) ==
  IF is_source_left_to_target(o) THEN o.m_source ELSE o.m_target

get_hint(o) == o.m_hint

\* ------------------------------------------------------------------------
\* Mutators
\* ------------------------------------------------------------------------

\* A slip: the point is stored only when it lies further right.
set_last_point_guarded(o, point) ==
  IF compare_xy(point, o.m_lastPoint) = "SMALLER" THEN o
  ELSE [o EXCEPT !.m_lastPoint = point]

\* A slip: advancing the point also trims the remaining curve.
set_last_point_retrim(o, point) ==
  [o EXCEPT !.m_lastPoint = point,
            !.m_lastCurve = IF o.m_isRightSide
                            THEN [s |-> point, t |-> o.m_target]
                            ELSE [s |-> o.m_source, t |-> point]]

set_last_point(o, point) == [o EXCEPT !.m_lastPoint = point]

\* A slip: the remaining curve is written to the reported piece.
set_last_curve_into_subcurve(o, cv) == [o EXCEPT !.m_lastSubCurve = cv]

set_last_curve(o, cv) == [o EXCEPT !.m_lastCurve = cv]

\* A slip: the reported piece is written over the curve itself.
set_last_subcurve_into_curve(o, cv) == [o EXCEPT !.m_curve = cv]

set_last_subcurve(o, cv) == [o EXCEPT !.m_lastSubCurve = cv]

set_hint(o, hint) == [o EXCEPT !.m_hint = hint]

\* ------------------------------------------------------------------------
\* What the sweep passes to the mutators
\* ------------------------------------------------------------------------

\* p lies on the segment curve (the kernel's point-on-curve test).
OnCurve(p, curve) ==
  LET a == curve.s
      b == curve.t
  IN  /\ (b[1] - a[1]) * (p[2] - a[2]) = (b[2] - a[2]) * (p[1] - a[1])
      /\ (p[1] - a[1]) * (p[1] - b[1]) <= 0
      /\ (p[2] - a[2]) * (p[2] - b[2]) <= 0

\* The event points of a curve: the grid points on it.
EventPoints(curve) == { p \in Points : OnCurve(p, curve) }

\* The pieces the kernel splits off a curve at its event points: the
\* non-degenerate sub-segments, directed as the curve is.
Pieces(curve) ==
  { c \in [s : EventPoints(curve), t : EventPoints(curve)] :
      /\ compare_xy(c.s, c.t) # "EQUAL"
      /\ compare_xy(c.s, c.t) = compare_xy(curve.s, curve.t) }

\* ------------------------------------------------------------------------
\* The life of one Subcurve
\* ------------------------------------------------------------------------

\* The second Subcurve and the status line take no part here.
IdleRest == UNCHANGED <<assertions, st2, obj2, ref, trio, less>>

\* new Sweep_line_subcurve(curve, traits)
Construct(curve, traits) ==
  /\ st = "none"
  /\ \E raw \in RawObjects :
       LET r == Sweep_line_subcurve(raw, curve, traits)
       IN  /\ st' = r.st
           /\ obj' = r.o
  /\ call' = [NoCall EXCEPT !.op = "ctor", !.cv = curve, !.tr = traits]
  /\ IdleRest

\* new Sweep_line_subcurve()
DefaultConstruct ==
  /\ st = "none"
  /\ st' = "default"
  /\ obj' \in RawObjects
  /\ call' = [NoCall EXCEPT !.op = "default_ctor"]
  /\ IdleRest

\* init(curve, traits): on a default-constructed Subcurve, or again on one
\* that was just constructed or initialised (the sweep initialises its
\* Subcurves before it starts to use them).
InitCall(curve, traits) ==
  /\ \/ st = "default"
     \/ st = "ready" /\ call.op \in {"ctor", "init"}
  /\ LET r == init(obj, curve, traits)
     IN  /\ st' = r.st
         /\ obj' = r.o
  /\ call' = [NoCall EXCEPT !.op = "init", !.cv = curve, !.tr = traits]
  /\ IdleRest

\* set_last_point(point).  The sweep calls the mutators on Subcurves it has
\* initialised, with event points and pieces of the Subcurve's curve.
SetLastPoint(point) ==
  /\ st = "ready"
  /\ obj' = set_last_point(obj, point)
  /\ call' = [NoCall EXCEPT !.op = "set_last_point", !.pt = point]
  /\ UNCHANGED st
  /\ IdleRest

\* set_last_curve(cv)
SetLastCurve(cv) ==
  /\ st = "ready"
  /\ obj' = set_last_curve(obj, cv)
  /\ call' = [NoCall EXCEPT !.op = "set_last_curve", !.cv = cv]
  /\ UNCHANGED st
  /\ IdleRest

\* set_last_subcurve(cv)
SetLastSubcurve(cv) ==
  /\ st = "ready"
  /\ obj' = set_last_subcurve(obj, cv)
  /\ call' = [NoCall EXCEPT !.op = "set_last_subcurve", !.cv = cv]
  /\ UNCHANGED st
  /\ IdleRest

\* set_hint(hint)
SetHint(hint) ==
  /\ st = "ready"
  /\ obj' = set_hint(obj, hint)
  /\ call' = [NoCall EXCEPT !.op = "set_hint", !.h = hint]
  /\ UNCHANGED st
  /\ IdleRest

Init ==
  /\ assertions \in BOOLEAN
  /\ st = "none"
  /\ obj = NoObject
  /\ call = NoCall
  /\ st2 = "none"
  /\ obj2 = NoObject
  /\ ref = 0
  /\ trio = <<>>
  /\ less = <<>>

Next ==
  \/ \E curve \in Curves, traits \in Traits : Construct(curve, traits)
  \/ DefaultConstruct
  \/ \E curve \in Curves, traits \in Traits : InitCall(curve, traits)
  \/ \E point \in EventPoints(obj.m_curve) : SetLastPoint(point)
  \/ \E cv \in Pieces(obj.m_curve) : SetLastCurve(cv)
  \/ \E cv \in Pieces(obj.m_curve) : SetLastSubcurve(cv)
  \/ \E hint \in Hints : SetHint(hint)

Spec == Init /\ [][Next]_vars

\* ------------------------------------------------------------------------
\* The two ways to build a Subcurve, side by side
\* ------------------------------------------------------------------------

\* The arguments already given to the other Subcurve, if any: both are built
\* from the same curve and traits.
SameArguments(curve, traits) ==
  call.op # "none" => (curve = call.cv /\ traits = call.tr)

\* first = new Sweep_line_subcurve(curve, traits)
BuildByConstructor(curve, traits) ==
  /\ st = "none"
  /\ SameArguments(curve, traits)
  /\ \E raw \in RawObjects :
       LET r == Sweep_line_subcurve(raw, curve, traits)
       IN  /\ st' = r.st
           /\ obj' = r.o
  /\ call' = [NoCall EXCEPT !.op = "ctor", !.cv = curve, !.tr = traits]
  /\ UNCHANGED <<assertions, st2, obj2, ref, trio, less>>

\* second = new Sweep_line_subcurve()
BuildByDefault ==
  /\ st2 = "none"
  /\ st2' = "default"
  /\ obj2' \in RawObjects
  /\ UNCHANGED <<assertions, st, obj, call, ref, trio, less>>

\* second->init(curve, traits)
BuildByInit(curve, traits) ==
  /\ st2 = "default"
  /\ SameArguments(curve, traits)
  /\ LET r == init(obj2, curve, traits)
     IN  /\ st2' = r.st
         /\ obj2' = r.o
  /\ call' = [NoCall EXCEPT !.op = "init", !.cv = curve, !.tr = traits]
  /\ UNCHANGED <<assertions, st, obj, ref, trio, less>>

NextEquiv ==
  \/ \E curve \in Curves, traits \in Traits : BuildByConstructor(curve, traits)
  \/ BuildByDefault
  \/ \E curve \in Curves, traits \in Traits : BuildByInit(curve, traits)

SpecEquiv == Init /\ [][NextEquiv]_vars

\* ------------------------------------------------------------------------
\* The status line's order
\* ------------------------------------------------------------------------

\* x of the left end, x of the right end
LeftX(o) == get_left_end(o)[1]

RightX(o) == get_right_end(o)[1]

\* The Subcurve covers the reference position x.
ActiveAt(o, x) == LeftX(o) <= x /\ x <= RightX(o)

\* (RightX - LeftX) times the y of the curve at x: the kernel's y-at-x, kept
\* in integers.
YTimesDx(o, x) ==
  LET l == get_left_end(o)
      r == get_right_end(o)
  IN  l[2] * (r[1] - l[1]) + (r[2] - l[2]) * (x - l[1])

\* The rise of the curve from its left to its right end.
Rise(o) == get_right_end(o)[2] - get_left_end(o)[2]

\* The run of the curve from its left to its right end.
Run(o) == RightX(o) - LeftX(o)

\* A slip: curves that meet at x with the same slope count as smaller.
StatusLineCurveLess_or_equal(x, a, b) ==
  LET ya == YTimesDx(a, x) * Run(b)
      yb == YTimesDx(b, x) * Run(a)
  IN  IF ya < yb THEN TRUE
      ELSE IF ya > yb THEN FALSE
      ELSE Rise(a) * Run(b) <= Rise(b) * Run(a)

\* Status_line_curve_less_functor at the reference position x: a is below b
\* at x, or they meet at x and a is below b immediately to the right of x.
StatusLineCurveLess(x, a, b) ==
  LET ya == YTimesDx(a, x) * Run(b)
      yb == YTimesDx(b, x) * Run(a)
  IN  IF ya < yb THEN TRUE
      ELSE IF ya > yb THEN FALSE
      ELSE Rise(a) * Run(b) < Rise(b) * Run(a)

\* The x-monotone curves of the grid: x strictly monotone along the curve.
XMonotoneCurves == { c \in Curves : c.s[1] # c.t[1] }

\* A number for each point and curve, to list a set of curves once.
PointIndex(p) == p[1] * (MaxY + 1) + p[2]

CurveIndex(c) ==
  PointIndex(c.s) * ((MaxX + 1) * (MaxY + 1)) + PointIndex(c.t)

\* The Subcurve the sweep makes of a curve.
SubcurveOf(curve) ==
  (Sweep_line_subcurve(NoObject, curve, CHOOSE tr \in Traits : TRUE)).o

\* The Subcurves active at x.
ActiveSubcurves(x) ==
  { o \in { SubcurveOf(c) : c \in XMonotoneCurves } : ActiveAt(o, x) }

\* The triples of Subcurves simultaneously active at x, each set of three
\* listed once.
ActiveTrios(x) ==
  LET act == ActiveSubcurves(x)
  IN  { w \in act \X act \X act :
          /\ CurveIndex(w[1].m_curve) <= CurveIndex(w[2].m_curve)
          /\ CurveIndex(w[2].m_curve) <= CurveIndex(w[3].m_curve) }

InitOrder ==
  /\ assertions = TRUE
  /\ st = "none"
  /\ obj = NoObject
  /\ call = NoCall
  /\ st2 = "none"
  /\ obj2 = NoObject
  /\ ref \in 0..MaxX
  /\ trio \in ActiveTrios(ref)
  /\ less = <<>>

\* The status line compares its three entries pairwise at ref.
CompareAll ==
  /\ less = <<>>
  /\ less' = [i \in 1..3 |->
                [j \in 1..3 |-> StatusLineCurveLess(ref, trio[i], trio[j])]]
  /\ UNCHANGED <<assertions, st, obj, call, st2, obj2, ref, trio>>

NextOrder == CompareAll

SpecOrder == InitOrder /\ [][NextOrder]_vars

\* ------------------------------------------------------------------------
\* Properties
\* ------------------------------------------------------------------------

\* p precedes q in the sweep's order: smaller x, or the same x and smaller y.
XYSmaller(p, q) == p[1] < q[1] \/ (p[1] = q[1] /\ p[2] < q[2])

\* The Subcurve wraps a curve that is not a single point.
NonDegenerate(o) == o.m_source # o.m_target

\* The step is a call of the member op on an initialised Subcurve.
Step(op) == st = "ready" /\ st' = "ready" /\ call'.op = op

\* C1: constructing a Subcurve from a curve whose source and target differ
\* sets isRightSide iff the source is the xy-smaller endpoint, lastPoint to
\* the left endpoint (the source when isRightSide, else the target), and
\* lastCurve to the whole input curve.
C1_ConstructorCachesDirection ==
  (st = "ready" /\ call.op = "ctor" /\ call.cv.s # call.cv.t) =>
    /\ get_source(obj) = call.cv.s
    /\ get_target(obj) = call.cv.t
    /\ is_source_left_to_target(obj) = XYSmaller(call.cv.s, call.cv.t)
    /\ get_last_point(obj) =
         (IF XYSmaller(call.cv.s, call.cv.t) THEN call.cv.s ELSE call.cv.t)
    /\ get_last_point(obj) =
         (IF is_source_left_to_target(obj) THEN call.cv.s ELSE call.cv.t)
    /\ get_last_curve(obj) = call.cv

\* Scenario B on the grid: the curve from (2,0) to (0,1) was constructed.
C1_Witness ==
  /\ st = "ready"
  /\ call.op = "ctor"
  /\ call.cv = [s |-> <<2, 0>>, t |-> <<0, 1>>]
  /\ ~is_source_left_to_target(obj)
  /\ get_last_point(obj) = <<0, 1>>

\* C2: a curve whose source equals its target is never made into a usable
\* Subcurve: construction and init fail on it.
C2_DegenerateCurveRejected ==
  st = "ready" => ~point_equal(get_source(obj), get_target(obj))

\* C3, as claimed: no call of set_last_point makes lastPoint xy-smaller than
\* it was, nor xy-smaller than the left endpoint (stated for the build that
\* checks assertions, where every Subcurve is non-degenerate).
C3_LastPointNeverDecreases ==
  [][(assertions /\ NonDegenerate(obj) /\ Step("set_last_point")) =>
       /\ compare_xy(get_last_point(obj'), get_last_point(obj)) # "SMALLER"
       /\ compare_xy(get_last_point(obj'), get_left_end(obj')) # "SMALLER"]_vars

\* C3, amended: lastPoint starts at the left endpoint; set_last_point(p)
\* stores p as it is, so lastPoint does not decrease (and stays at or right
\* of the left endpoint) in a call whose p is not xy-smaller than the
\* current lastPoint.
C3_LastPointFollowsCaller ==
  [][/\ (st' = "ready" /\ call'.op \in {"ctor", "init"} /\ NonDegenerate(obj'))
          => /\ get_last_point(obj') = get_left_end(obj')
             /\ XYSmaller(get_last_point(obj'), get_right_end(obj'))
     /\ Step("set_last_point") =>
          /\ get_last_point(obj') = call'.pt
          /\ compare_xy(call'.pt, get_last_point(obj)) # "SMALLER"
               => compare_xy(get_last_point(obj'), get_last_point(obj))
                    # "SMALLER"
          /\ ( /\ compare_xy(call'.pt, get_last_point(obj)) # "SMALLER"
               /\ compare_xy(get_last_point(obj), get_left_end(obj))
                    # "SMALLER" )
               => compare_xy(get_last_point(obj'), get_left_end(obj'))
                    # "SMALLER"]_vars

\* lastPoint was advanced past the left endpoint by set_last_point.
C3_Witness ==
  /\ st = "ready"
  /\ call.op = "set_last_point"
  /\ NonDegenerate(obj)
  /\ XYSmaller(get_left_end(obj), get_last_point(obj))

\* lastCurve is the part of the curve from lastPoint to the right endpoint.
IsRemainder(o) ==
  /\ OnCurve(get_last_point(o), get_curve(o))
  /\ {get_last_curve(o).s, get_last_curve(o).t}
       = {get_last_point(o), get_right_end(o)}

\* C4, as claimed: in every state of a Subcurve, lastCurve is the part of
\* the curve from lastPoint to the right endpoint (stated for the build that
\* checks assertions, where every Subcurve is non-degenerate).
C4_LastCurveIsRemainder ==
  (assertions /\ st = "ready" /\ NonDegenerate(obj)) => IsRemainder(obj)

\* C4, amended: lastCurve is the part of the curve from lastPoint to the
\* right endpoint once the Subcurve is constructed or initialised, and stays
\* so across set_last_subcurve and set_hint; set_last_point and
\* set_last_curve store their argument and do not trim.
C4_RemainderAtConstruction ==
  [][/\ (st' = "ready" /\ call'.op \in {"ctor", "init"} /\ NonDegenerate(obj'))
          => (IsRemainder(obj') /\ get_last_curve(obj') = get_curve(obj'))
     /\ ( /\ Step("set_last_subcurve") \/ Step("set_hint")
          /\ IsRemainder(obj) )
          => IsRemainder(obj')
     /\ Step("set_last_point") => get_last_curve(obj') = get_last_curve(obj)
     /\ Step("set_last_curve") => get_last_point(obj') = get_last_point(obj)]_vars

\* A curve with an interior event point was constructed and a piece reported.
C4_Witness ==
  /\ st = "ready"
  /\ call.op = "set_last_subcurve"
  /\ NonDegenerate(obj)
  /\ Cardinality(EventPoints(get_curve(obj))) > 2
  /\ IsRemainder(obj)

\* C5: for a Subcurve of a curve with source # target, the left and right
\* ends are the source and the target, one each; the left end is a left end,
\* the right end is a right end, and no point is both.
C5_EndsPartitionEndpoints ==
  (st = "ready" /\ NonDegenerate(obj)) =>
    /\ {get_left_end(obj), get_right_end(obj)}
         = {get_source(obj), get_target(obj)}
    /\ get_left_end(obj) # get_right_end(obj)
    /\ is_left_end(obj, get_left_end(obj))
    /\ is_right_end(obj, get_right_end(obj))
    /\ XYSmaller(get_left_end(obj), get_right_end(obj))
    /\ \A p \in Points : ~(is_left_end(obj, p) /\ is_right_end(obj, p))

\* A Subcurve whose source is its right end, after the sweep advanced it.
C5_Witness ==
  /\ st = "ready"
  /\ NonDegenerate(obj)
  /\ ~is_source_left_to_target(obj)
  /\ call.op = "set_last_point"
  /\ is_right_end(obj, get_source(obj))

\* The cached curve, endpoints and direction of a Subcurve.
Cached(o) == <<o.m_curve, o.m_source, o.m_target, o.m_isRightSide>>

\* C6, as claimed: no call on an initialised Subcurve, a further init
\* included, changes isRightSide (stated for the build that checks
\* assertions, where every Subcurve is non-degenerate).
C6_DirectionFixedForLife ==
  [][(assertions /\ st = "ready" /\ st' = "ready") =>
       is_source_left_to_target(obj') = is_source_left_to_target(obj)]_vars

\* C6, amended: set_last_point, set_last_curve, set_last_subcurve and
\* set_hint leave isRightSide and the cached source, target and curve
\* unchanged; a further init replaces them by those of its curve.
C6_DirectionFixedUnlessInit ==
  [][/\ (st = "ready" /\ st' = "ready" /\ call'.op # "init")
          => Cached(obj') = Cached(obj)
     /\ (Step("init") /\ call'.cv.s # call'.cv.t)
          => Cached(obj') = <<call'.cv, call'.cv.s, call'.cv.t,
                              XYSmaller(call'.cv.s, call'.cv.t)>>]_vars

\* Every progress member of a Subcurve was set since it was built.
C6_Witness ==
  /\ st = "ready"
  /\ call.op = "set_last_subcurve"
  /\ get_last_subcurve(obj) # get_curve(obj)
  /\ get_last_curve(obj) # get_curve(obj)
  /\ get_last_point(obj) # get_left_end(obj)
  /\ get_hint(obj) \in Hints

\* C7: get_last_curve returns the curve given to set_last_curve, also after
\* calls of set_last_point, set_last_subcurve and set_hint.
C7_LastCurveRoundTrip ==
  [][/\ Step("set_last_curve") => get_last_curve(obj') = call'.cv
     /\ ( \/ Step("set_last_point")
          \/ Step("set_last_subcurve")
          \/ Step("set_hint") )
          => get_last_curve(obj') = get_last_curve(obj)]_vars

\* A trimmed curve was set, and another setter was called after it.
C7_Witness ==
  /\ st = "ready"
  /\ call.op = "set_last_point"
  /\ get_last_curve(obj) # get_curve(obj)
  /\ get_last_curve(obj) \in Pieces(get_curve(obj))

\* C8: at one reference position the comparator never orders two active
\* Subcurves both ways, and it is transitive over three of them.
C8_ComparatorStrictOrder ==
  less # <<>> =>
    /\ \A i, j \in 1..3 : ~(less[i][j] /\ less[j][i])
    /\ \A i, j, k \in 1..3 : (less[i][j] /\ less[j][k]) => less[i][k]

\* Three active curves in a chain, the first two meeting at the reference
\* position and told apart by their slopes.
C8_Witness ==
  /\ less # <<>>
  /\ less[1][2]
  /\ less[2][3]
  /\ YTimesDx(trio[1], ref) * Run(trio[2])
       = YTimesDx(trio[2], ref) * Run(trio[1])

\* C9: each mutator changes its own member and no other, and get_hint
\* returns the hint last given to set_hint.
C9_MutatorsChangeOwnMember ==
  [][/\ Step("set_last_point")
          => obj' = [obj EXCEPT !.m_lastPoint = call'.pt]
     /\ Step("set_last_curve")
          => obj' = [obj EXCEPT !.m_lastCurve = call'.cv]
     /\ Step("set_last_subcurve")
          => obj' = [obj EXCEPT !.m_lastSubCurve = call'.cv]
     /\ Step("set_hint")
          => (obj' = [obj EXCEPT !.m_hint = call'.h]
              /\ get_hint(obj') = call'.h)]_vars

\* A hint was stored, and the point advanced after it.
C9_Witness ==
  /\ st = "ready"
  /\ call.op = "set_last_point"
  /\ get_hint(obj) \in Hints
  /\ get_last_subcurve(obj) # NoCurve
  /\ get_last_point(obj) # get_left_end(obj)

\* What a caller can observe of a freshly built Subcurve.
Observable(o) ==
  <<o.m_curve, o.m_source, o.m_target, o.m_isRightSide, o.m_lastPoint,
    o.m_lastCurve, o.m_traits>>

\* C10: a Subcurve built by the default constructor and init is in the same
\* observable state as one built by the two-argument constructor from the
\* same curve and traits, and the two fail on the same inputs.
C10_ConstructionPathsAgree ==
  (st \in {"ready", "failed"} /\ st2 \in {"ready", "failed"}) =>
    /\ st = st2
    /\ st = "ready" => Observable(obj) = Observable(obj2)

\* Both Subcurves were built from a curve that runs right to left.
C10_Witness ==
  /\ st = "ready"
  /\ st2 = "ready"
  /\ ~is_source_left_to_target(obj)
  /\ get_last_point(obj2) = get_target(obj2)

=============================================================================
